---- MODULE Spec2Model ----
(***************************************************************************)
(* monokuma: a URL shortener backed by two redis hash tables.              *)
(*                                                                         *)
(* Strings are sequences of byte values (Go strings are byte sequences).   *)
(* Request handlers run concurrently, one goroutine per request; every     *)
(* redis command (HGET, HSET) and every cache call is one atomic step.     *)
(***************************************************************************)
EXTENDS Integers, Sequences, FiniteSets, TLC

(***************************************************************************)
(* Bounds of the model.                                                    *)
(***************************************************************************)
\* total number of requests served in one behaviour
MaxCalls == 3

\* the failed pings in a row that the model follows
MaxPingFailures == 310

\* the alphabets whose selection counts are taken have every length from 1
\* to this one
MaxAlphabetLen == 8

\* the request goroutines that may be in flight at the same time
Procs == {"r1", "r2"}

(***************************************************************************)
(* Byte classes.                                                           *)
(***************************************************************************)
Digits == 48..57
Upper == 65..90
Lower == 97..122
Alnum == Digits \cup Upper \cup Lower

\* unicode.IsSpace restricted to ASCII: \t \n \v \f \r and space
SpaceBytes == (9..13) \cup {32}

\* [-0-9a-zA-Z]
keyClass == {45} \cup Alnum

\* [-a-zA-Z0-9@:%._\+~#=]
urlHostClass == Alnum \cup {45, 64, 58, 37, 46, 95, 43, 126, 35, 61}

\* [a-zA-Z0-9()]
urlTldClass == Alnum \cup {40, 41}

\* \w of the regexp package: [0-9A-Za-z_]
wordClass == Alnum \cup {95}

(***************************************************************************)
(* Pure string functions.                                                  *)
(***************************************************************************)
AllIn(s, class) == \A i \in 1..Len(s) : s[i] \in class

\* does t occur in s starting at position i
HasAt(s, i, t) ==
    /\ i + Len(t) - 1 <= Len(s)
    /\ \A j \in 1..Len(t) : s[i + j - 1] = t[j]

RECURSIVE TrimLeft(_)
TrimLeft(s) ==
    IF Len(s) > 0 /\ s[1] \in SpaceBytes THEN TrimLeft(Tail(s)) ELSE s

RECURSIVE TrimRight(_)
TrimRight(s) ==
    IF Len(s) > 0 /\ s[Len(s)] \in SpaceBytes
    THEN TrimRight(SubSeq(s, 1, Len(s) - 1))
    ELSE s

\* strings.TrimSpace
TrimSpace(s) == TrimRight(TrimLeft(s))

\* len(strings.Split(link, "\n")) > 1
HasNewline(s) == \E i \in 1..Len(s) : s[i] = 10

\* keyRegexp with the bound of customKeyMaxLength: ^[-0-9a-zA-Z]{3,37}$
keyRegexpMatchUpTo37(s) == \E n \in 3..37 : Len(s) = n /\ AllIn(s, keyClass)

\* keyRegexp = ^[-0-9a-zA-Z]{3,10}$
keyRegexpMatch(s) == \E n \in 3..10 : Len(s) = n /\ AllIn(s, keyClass)

\* the empty-width assertion \b between positions i and i+1 of s
WordBoundary(s, i) ==
    LET before == i >= 1 /\ i <= Len(s) /\ s[i] \in wordClass
        after == i + 1 >= 1 /\ i + 1 <= Len(s) /\ s[i + 1] \in wordClass
    IN  before # after

\* "http://" and "https://"
SchemeHttp == <<104, 116, 116, 112, 58, 47, 47>>
SchemeHttps == <<104, 116, 116, 112, 115, 58, 47, 47>>
\* "www."
Www == <<119, 119, 119, 46>>

\* URLRegexp, unanchored:
\*   https?:\/\/(www\.)?[-a-zA-Z0-9@:%._\+~#=]{1,256}\.[a-zA-Z0-9()]{1,6}\b(...)*
\* the trailing group matches the empty string, so it never constrains a match
URLRegexpMatch(s) ==
    \E i \in 1..Len(s) :
    \E scheme \in {SchemeHttp, SchemeHttps} :
        /\ HasAt(s, i, scheme)
        /\ \E w \in {<<>>, Www} :
            /\ HasAt(s, i + Len(scheme), w)
            /\ LET h == i + Len(scheme) + Len(w)
               IN  \E n \in 1..256 :
                    /\ h + n <= Len(s)
                    /\ \A j \in h..(h + n - 1) : s[j] \in urlHostClass
                    /\ s[h + n] = 46
                    /\ \E m \in 1..6 :
                        /\ h + n + m <= Len(s)
                        /\ \A j \in (h + n + 1)..(h + n + m) : s[j] \in urlTldClass
                        /\ WordBoundary(s, h + n + m)

(***************************************************************************)
(* rei.Btao / rei.AtobMust: base64 with the standard alphabet and padding. *)
(***************************************************************************)
\* the byte of the base64 alphabet standing for the 6-bit value v
B64Char(v) ==
    IF v < 26 THEN 65 + v
    ELSE IF v < 52 THEN 97 + (v - 26)
    ELSE IF v < 62 THEN 48 + (v - 52)
    ELSE IF v = 62 THEN 43
    ELSE 47

\* the 6-bit value of a byte of the base64 alphabet
B64Val(c) ==
    IF c \in Upper THEN c - 65
    ELSE IF c \in Lower THEN c - 97 + 26
    ELSE IF c \in Digits THEN c - 48 + 52
    ELSE IF c = 43 THEN 62
    ELSE 63

\* "="
B64Pad == 61

RECURSIVE Btao(_)
Btao(s) ==
    IF Len(s) = 0 THEN <<>>
    ELSE IF Len(s) = 1 THEN
        <<B64Char(s[1] \div 4), B64Char((s[1] % 4) * 16), B64Pad, B64Pad>>
    ELSE IF Len(s) = 2 THEN
        <<B64Char(s[1] \div 4),
          B64Char((s[1] % 4) * 16 + (s[2] \div 16)),
          B64Char((s[2] % 16) * 4),
          B64Pad>>
    ELSE
        <<B64Char(s[1] \div 4),
          B64Char((s[1] % 4) * 16 + (s[2] \div 16)),
          B64Char((s[2] % 16) * 4 + (s[3] \div 64)),
          B64Char(s[3] % 64)>> \o Btao(SubSeq(s, 4, Len(s)))

RECURSIVE AtobMust(_)
AtobMust(e) ==
    IF Len(e) < 4 THEN <<>>
    ELSE
        LET a == B64Val(e[1])
            b == B64Val(e[2])
            c == B64Val(e[3])
            d == B64Val(e[4])
            rest == AtobMust(SubSeq(e, 5, Len(e)))
        IN  IF e[3] = B64Pad THEN <<a * 4 + (b \div 16)>>
            ELSE IF e[4] = B64Pad THEN
             <<a * 4 + (b \div 16), (b % 16) * 16 + (c \div 4)>>
            ELSE
             <<a * 4 + (b \div 16), (b % 16) * 16 + (c \div 4), (c % 4) * 64 + d>>
                 \o rest

\* rei.Sha256: the digest is taken to be collision free, so it is named by
\* the bytes it digests
Sha256(s) == [sha256 |-> s]


(***************************************************************************)
(* Errors.  An error is its message, outermost context first, and the set  *)
(* of sentinel errors that errors.Is finds in its chain.                   *)
(***************************************************************************)
nil == [msg |-> <<>>, is |-> {}]

\* errors.New
errorsNew(text) == [msg |-> <<text>>, is |-> {text}]

\* errors.Is
errorsIs(err, target) == target.is # {} /\ target.is \subseteq err.is

\* fmt.Errorf with one error operand: verb is the verb the format gives the
\* operand, "%w" (wraps it), "%v" (prints it) or "none" (the format has no
\* verb for the operand, which is then printed as %!(EXTRA ...))
Errorf(text, verb, err) ==
    [msg |-> <<text>> \o (IF verb = "none" THEN <<"%!(EXTRA)">> ELSE <<>>) \o err.msg,
     is |-> IF verb = "%w" THEN err.is ELSE {}]

\* fmt.Errorf without an error operand
ErrorfText(text) == [msg |-> <<text>>, is |-> {}]

errKeyExists == errorsNew("key already exists")

\* what a redis command returns when the command fails (not redis.Nil)
redisFailure == errorsNew("redis: command failed")

\* what io.ReadAll returns when the request body cannot be read
readFailure == errorsNew("read failed")

(***************************************************************************)
(* Program constants.                                                      *)
(***************************************************************************)
customKeyMaxLength == 37
maxNumKeepAliveFailures == 100
\* the cache's time to live and sweep interval, in hours
keyToUrlExpire == 24
KeytoUrlCleanup == 1

(***************************************************************************)
(* The requests the clients send.                                          *)
(***************************************************************************)
Rep(c, n) == [j \in 1..n |-> c]

\* "http://a.b" and "http://a.c"
LinkAB == SchemeHttp \o <<97, 46, 98>>
LinkAC == SchemeHttp \o <<97, 46, 99>>

\* the request bodies: a link, a link followed by a newline, a blank body,
\* two lines, and text that is no link
LinkInputs ==
    { LinkAB, LinkAC \o <<10>>, <<32>>, LinkAB \o <<10, 120>>, <<97, 46, 98>> }

\* a request body and whether reading it fails
Readers ==
    {[data |-> l, fails |-> FALSE] : l \in LinkInputs}
        \cup {[data |-> <<>>, fails |-> TRUE]}

\* "abc" and "aZ-0123459"
KeyABC == <<97, 98, 99>>
Key10 == <<97, 90, 45, 48, 49, 50, 51, 52, 53, 57>>

\* the keys of the requests: no key, "ab", "abc", a key of length 10, "a_c",
\* and keys of length 11, 37 and 38
KeyInputs ==
    { <<>>, <<97, 98>>, KeyABC, Key10, <<97, 95, 99>>,
      Rep(97, 11), Rep(97, customKeyMaxLength), Rep(97, customKeyMaxLength + 1) }

\* the keys of the resolve requests
ResolveKeys == {<<97, 98>>, KeyABC, Key10, <<97, 95, 99>>, Rep(97, 11)}

\* the requests to /create: every key with the body "http://a.b"; no key,
\* "abc" and the key of length 10 with the body "http://a.c\n"; the key "abc"
\* with the other bodies; the key "a_c" with the blank body
CreateInputs ==
    {in \in [linkReader : Readers, customKey : KeyInputs] :
        \/ in.linkReader.data = LinkAB
        \/ in.linkReader.data = LinkAC \o <<10>> /\ in.customKey \in {<<>>, KeyABC, Key10}
        \/ in.customKey = KeyABC
        \/ in.customKey = <<97, 95, 99>> /\ in.linkReader.data = <<32>>}

\* the 16-bit values the random source yields in the model
RandVals == {0, 65535}

\* the alphabet "ab"
AlphabetAB == <<97, 98>>

(***************************************************************************)
(* State.                                                                  *)
(***************************************************************************)
VARIABLES
    keyToLinkTable,   \* redis hash "keytob64": key -> base64 of the link
    linkExistsTable,  \* redis hash "linkhashes": sha256 of the base64 -> key
    keyToUrl,         \* the cache: key -> [object: the url, age: hours since Add]
    proc,             \* per request goroutine: position, arguments, locals, results
    keysize,          \* flag -key-size
    alphabet,         \* flag -alphabet
    maxNumGenTries,   \* flag -gen-tries
    calls,            \* requests started so far
    issued,           \* history: the (key, link) pairs createLink answered with Success
    monitor,          \* keepAlive: position, numFailures, failed pings in a row
    tally             \* per byte of the alphabet, the 16-bit values that select it

vars ==
    <<keyToLinkTable, linkExistsTable, keyToUrl, proc, keysize, alphabet,
      maxNumGenTries, calls, issued, monitor, tally>>

config == <<keysize, alphabet, maxNumGenTries>>

\* a goroutine that has served no request yet; once it has served one it
\* keeps the outcome of its last request (pc = "done") until the next one
Idle ==
    [ pc |-> "idle",
      op |-> "none",
      linkReader |-> [data |-> <<>>, fails |-> FALSE],
      customKey |-> <<>>,
      linkb64 |-> <<>>,
      hash |-> Sha256(<<>>),
      exists |-> FALSE,
      key |-> <<>>,
      i |-> 0,
      finalUrl |-> <<>>,
      links |-> <<>>,
      status |-> "none",
      err |-> nil,
      \* history of the call, for the properties
      nHGet |-> 0,
      nHSet |-> 0,
      nCacheGet |-> 0,
      nCacheAdd |-> 0,
      failed |-> FALSE,
      solo |-> TRUE,
      preTaken |-> FALSE,
      genTaken |-> FALSE,
      orphans |-> {},
      prior |-> {},
      priorExpired |-> FALSE,
      expect |-> {} ]

Active(q) == proc[q].pc \notin {"idle", "done"}

\* HSETNX in place of HSET: a field that is there keeps its value
HSetKeepsField(table, field, value) ==
    [f \in DOMAIN table \cup {field} |-> IF f \in DOMAIN table THEN table[f] ELSE value]

\* redis HSET on a hash
HSet(table, field, value) ==
    [f \in DOMAIN table \cup {field} |-> IF f = field THEN value ELSE table[f]]

\* an empty hash
EmptyTable == [f \in {} |-> <<>>]

\* string(res) for a slice of runes below 256: the UTF-8 encoding, one byte
\* for a rune below 128 and two bytes for the others
RECURSIVE Utf8Encode(_)
Utf8Encode(runes) ==
    IF runes = <<>> THEN <<>>
    ELSE (IF runes[1] < 128 THEN <<runes[1]>>
          ELSE <<192 + (runes[1] \div 64), 128 + (runes[1] % 64)>>)
         \o Utf8Encode(Tail(runes))

\* the index that uses only the low byte of the random value
genIndexLowByte(alpha, rand) ==
    ((rand % 256) % (Len(alpha) % 65536)) + 1

\* gen's index into the alphabet (from 1) for one 16-bit random value: the
\* value modulo the length, both as uint16
genIndex(alpha, rand) ==
    ((rand % 65536) % (Len(alpha) % 65536)) + 1

\* gen: per 16-bit random value one byte of the alphabet, taken as a rune;
\* the runes make the string
gen(size, alpha, rands) ==
    Utf8Encode([j \in 1..size |-> alpha[genIndex(alpha, rands[j])]])

\* the keys gen can return under the configuration
Candidates == {gen(keysize, alphabet, rands) : rands \in [1..keysize -> RandVals]}

\* history: the keys bound to the encoded link while the link's hash has no
\* entry in linkExistsTable
Orphans(linkb64) ==
    IF Sha256(linkb64) \in DOMAIN linkExistsTable THEN {}
    ELSE {k \in DOMAIN keyToLinkTable : keyToLinkTable[k] = linkb64}

\* goroutine p starts a request and is now in state rec
Begin(p, rec) ==
    /\ proc' = [q \in Procs |->
                IF q = p THEN [rec EXCEPT !.solo = \A r \in Procs \ {p} : ~Active(r)]
                ELSE IF Active(q) THEN [proc[q] EXCEPT !.solo = FALSE]
                ELSE proc[q]]
    /\ UNCHANGED issued

\* goroutine p moves to state rec
Move(p, rec) ==
    /\ proc' = [proc EXCEPT ![p] = rec]
    /\ issued' =
        IF rec.pc = "done" /\ rec.op = "create" /\ rec.status = "Success"
        THEN issued \cup {[key |-> rec.key, link |-> TrimSpace(rec.linkReader.data)]}
        ELSE issued

\* a redis command either succeeds or fails
StoreOutcomes == BOOLEAN

Init ==
    /\ keyToLinkTable = EmptyTable
    /\ linkExistsTable = EmptyTable
    /\ keyToUrl = EmptyTable
    /\ proc = [p \in Procs |-> Idle]
    /\ keysize = 3
    /\ alphabet = AlphabetAB
    /\ maxNumGenTries = 2
    /\ calls = 0
    /\ issued = {}
    /\ monitor = [pc |-> "check", numFailures |-> 0, failedInARow |-> 0]
    /\ tally = [v |-> 0, count |-> <<>>]


(***************************************************************************)
(* operationCreateLink and dangan.writeLink.                               *)
(***************************************************************************)
\* operationCreateLinkCheck without the check of the key
operationCreateLinkCheckNoKey(linkReader, customKey) ==
    LET link == TrimSpace(linkReader.data)
    IN  IF linkReader.fails THEN
            [status |-> "Uncategorized",
             err |-> Errorf("reading the link", "%v", readFailure)]
        ELSE IF Len(link) < 1 THEN
            [status |-> "BadLink", err |-> ErrorfText("link is empty")]
        ELSE IF HasNewline(link) THEN
            [status |-> "BadLink", err |-> ErrorfText("link contains newlines")]
        ELSE IF ~URLRegexpMatch(link) THEN
            [status |-> "BadLink", err |-> ErrorfText("link is invalid")]
        ELSE
            [status |-> "none", err |-> nil]

\* the checks of operationCreateLink before it calls writeLink: the status
\* and error it returns, or "none" when every check passes
operationCreateLinkCheck(linkReader, customKey) ==
    LET link == TrimSpace(linkReader.data)
    IN  IF linkReader.fails THEN
            [status |-> "Uncategorized",
             err |-> Errorf("reading the link", "%v", readFailure)]
        ELSE IF Len(link) < 1 THEN
            [status |-> "BadLink", err |-> ErrorfText("link is empty")]
        ELSE IF HasNewline(link) THEN
            [status |-> "BadLink", err |-> ErrorfText("link contains newlines")]
        ELSE IF ~URLRegexpMatch(link) THEN
            [status |-> "BadLink", err |-> ErrorfText("link is invalid")]
        ELSE IF ~keyRegexpMatch(customKey) THEN
            [status |-> "BadKey", err |-> ErrorfText("key is invalid")]
        ELSE
            [status |-> "none", err |-> nil]

\* the end of a call of writeLink where operationCreateLink loses the error
\* it was given
writeLinkReturnLosesError(rec, key, err) ==
    IF rec.op = "writeLink" THEN
        [rec EXCEPT !.pc = "done", !.key = key, !.err = err]
    ELSE IF err # nil THEN
        [rec EXCEPT !.pc = "done", !.key = <<>>, !.status = "Uncategorized",
                    !.err = nil]
    ELSE
        [rec EXCEPT !.pc = "done", !.key = key, !.status = "Success", !.err = nil]

\* the end of a call of writeLink that returns (key, err): a direct call ends
\* with them, operationCreateLink turns them into its own result
writeLinkReturn(rec, key, err) ==
    IF rec.op = "writeLink" THEN
        [rec EXCEPT !.pc = "done", !.key = key, !.err = err]
    ELSE IF err # nil THEN
        [rec EXCEPT !.pc = "done", !.key = <<>>, !.status = "Uncategorized",
                    !.err = Errorf("shortening the link", "%v", err)]
    ELSE
        [rec EXCEPT !.pc = "done", !.key = key, !.status = "Success", !.err = nil]

\* the requests to /create, each with the outcome of the checks and the
\* encoded link that is handed to writeLink
CreateRequests ==
    {[linkReader |-> in.linkReader,
      customKey |-> in.customKey,
      check |-> operationCreateLinkCheck(in.linkReader, in.customKey),
      linkb64 |-> Btao(TrimSpace(in.linkReader.data))] : in \in CreateInputs}

\* POST /create: operationCreateLink up to its call of writeLink
operationCreateLink(p) ==
    /\ ~Active(p)
    /\ calls < MaxCalls
    /\ \E in \in CreateRequests :
        LET linkReader == in.linkReader
            customKey == in.customKey
            check == in.check
            rec == [Idle EXCEPT !.op = "create",
                                !.linkReader = linkReader,
                                !.customKey = customKey,
                                !.preTaken = customKey \in DOMAIN keyToLinkTable,
                                !.orphans = Orphans(in.linkb64)]
        IN  IF check.status # "none" THEN
             Begin(p, [rec EXCEPT !.pc = "done", !.status = check.status,
                                  !.err = check.err])
            ELSE
             Begin(p, [rec EXCEPT !.pc = "isLinkAlreadyShortened",
                                  !.linkb64 = in.linkb64])
    /\ calls' = calls + 1
    /\ UNCHANGED <<keyToLinkTable, linkExistsTable, keyToUrl, config, monitor, tally>>

\* isLinkAlreadyShortenedResult that reports a hit without the key it found
isLinkAlreadyShortenedResultDropsKey(table, linkb64, ok) ==
    IF ~ok THEN
        [hash |-> Sha256(linkb64), key |-> <<>>, exists |-> FALSE,
         err |-> Errorf("hash lookup", "%w", redisFailure)]
    ELSE
        [hash |-> Sha256(linkb64), key |-> <<>>,
         exists |-> Sha256(linkb64) \in DOMAIN table, err |-> nil]

\* isLinkAlreadyShortenedResult that never reports the link as shortened
isLinkAlreadyShortenedResultNeverExists(table, linkb64, ok) ==
    IF ~ok THEN
        [hash |-> Sha256(linkb64), key |-> <<>>, exists |-> FALSE,
         err |-> Errorf("hash lookup", "%w", redisFailure)]
    ELSE
        [hash |-> Sha256(linkb64), key |-> <<>>, exists |-> FALSE, err |-> nil]

\* isLinkAlreadyShortened: the HGET of the link's hash in linkExistsTable
isLinkAlreadyShortenedResult(table, linkb64, ok) ==
    LET hash == Sha256(linkb64)
    IN  IF ~ok THEN
            [hash |-> hash, key |-> <<>>, exists |-> FALSE,
             err |-> Errorf("hash lookup", "%w", redisFailure)]
        ELSE IF hash \in DOMAIN table THEN
            [hash |-> hash, key |-> table[hash], exists |-> TRUE, err |-> nil]
        ELSE
            [hash |-> hash, key |-> <<>>, exists |-> FALSE, err |-> nil]

\* the part of getUniqueKey that runs before its first redis command: where
\* it goes next, or the error it returns
getUniqueKeyEntry(customKey, tries) ==
    IF Len(customKey) > 0 THEN
        IF Len(customKey) > customKeyMaxLength THEN
            [pc |-> "done", err |-> ErrorfText("custom key is too long")]
        ELSE
            [pc |-> "keyExists", err |-> nil]
    ELSE IF 0 < tries THEN
        [pc |-> "gen", err |-> nil]
    ELSE
        [pc |-> "done", err |-> ErrorfText("couldn't generate a unique key")]

\* writeLink's handling of an error of getUniqueKey
getUniqueKeyError(err) ==
    IF errorsIs(err, errKeyExists) THEN err
    ELSE Errorf("getting unique key for link", "%w", err)

\* writeLink: the hash check, then getUniqueKey up to its first redis command
isLinkAlreadyShortened(p) ==
    /\ proc[p].pc = "isLinkAlreadyShortened"
    /\ \E ok \in StoreOutcomes :
        LET rec == [proc[p] EXCEPT !.nHGet = @ + 1, !.failed = @ \/ ~ok]
            res == isLinkAlreadyShortenedResult(linkExistsTable, rec.linkb64, ok)
            found == [rec EXCEPT !.hash = res.hash, !.exists = res.exists]
            entry == getUniqueKeyEntry(rec.customKey, maxNumGenTries)
        IN  IF res.err # nil THEN
                 Move(p, writeLinkReturn(found, <<>>,
                             Errorf("link creation hash check", "%w", res.err)))
            ELSE IF res.exists THEN
                 Move(p, writeLinkReturn(found, res.key, nil))
            ELSE IF entry.pc = "done" THEN
                 Move(p, writeLinkReturn(found, <<>>, getUniqueKeyError(entry.err)))
            ELSE
                 Move(p, [found EXCEPT !.pc = entry.pc, !.i = 0])
    /\ UNCHANGED <<keyToLinkTable, linkExistsTable, keyToUrl, config, monitor, tally, calls>>

\* keyExists that takes a failed read for a key that is there, which sends
\* the generation loop round again
keyExistsRetries(table, key, ok) ==
    IF ~ok THEN
        [exists |-> TRUE, err |-> nil]
    ELSE
        [exists |-> key \in DOMAIN table, err |-> nil]

\* keyExists that takes a failed read for a key that is not there and
\* reports no error
keyExistsHidesError(table, key, ok) ==
    IF ~ok THEN
        [exists |-> FALSE, err |-> nil]
    ELSE
        [exists |-> key \in DOMAIN table, err |-> nil]

\* keyExists: the HGET of a key in a hash
keyExists(table, key, ok) ==
    IF ~ok THEN
        [exists |-> FALSE, err |-> Errorf("key existence check", "%w", redisFailure)]
    ELSE
        [exists |-> key \in DOMAIN table, err |-> nil]

\* getUniqueKeyCustom that hands out the custom key although it exists
getUniqueKeyCustomIgnoresExists(customKey, exists, err) ==
    IF err # nil THEN
        [key |-> <<>>, err |-> Errorf("existence of custom key", "%w", err)]
    ELSE
        [key |-> customKey, err |-> nil]

\* getUniqueKey with a custom key, after keyExists returned: the key and the
\* error it returns
getUniqueKeyCustom(customKey, exists, err) ==
    IF err # nil THEN
        [key |-> <<>>, err |-> Errorf("existence of custom key", "%w", err)]
    ELSE IF exists THEN
        [key |-> <<>>, err |-> Errorf("custom key already exists", "none", errKeyExists)]
    ELSE
        [key |-> customKey, err |-> nil]

\* getUniqueKey with a custom key: the existence check and what follows it
getUniqueKeyCustomKey(p) ==
    /\ proc[p].pc = "keyExists"
    /\ \E ok \in StoreOutcomes :
        LET rec == [proc[p] EXCEPT !.nHGet = @ + 1, !.failed = @ \/ ~ok]
            chk == keyExists(keyToLinkTable, rec.customKey, ok)
            res == getUniqueKeyCustom(rec.customKey, chk.exists, chk.err)
        IN  IF res.err # nil THEN
                 Move(p, writeLinkReturn(rec, res.key, getUniqueKeyError(res.err)))
            ELSE
                 Move(p, [rec EXCEPT !.pc = "HSetKeyToLink", !.key = res.key])
    /\ UNCHANGED <<keyToLinkTable, linkExistsTable, keyToUrl, config, monitor, tally, calls>>

\* the generation loop goes round again after try number i (from 0) found
\* its key taken: the loop that makes one try too many
getUniqueKeyLoopOneMore(i, tries) == i < tries

\* the generation loop goes round again after try number i (from 0) found
\* its key taken
getUniqueKeyLoop(i, tries) == i + 1 < tries

\* getUniqueKey without a custom key: one round of the generation loop
getUniqueKeyGenerated(p) ==
    /\ proc[p].pc = "gen"
    /\ \E ok \in StoreOutcomes, rands \in [1..keysize -> RandVals] :
        LET rec == [proc[p] EXCEPT !.nHGet = @ + 1, !.failed = @ \/ ~ok]
            key == gen(keysize, alphabet, rands)
            chk == keyExists(keyToLinkTable, key, ok)
        IN  IF chk.err # nil THEN
                 Move(p, writeLinkReturn(rec, <<>>,
                     getUniqueKeyError(Errorf("existence of generated key", "%w", chk.err))))
            ELSE IF ~chk.exists THEN
                 Move(p, [rec EXCEPT !.pc = "HSetKeyToLink", !.key = key])
            ELSE IF getUniqueKeyLoop(rec.i, maxNumGenTries) THEN
                 Move(p, [rec EXCEPT !.i = @ + 1])
            ELSE
                 Move(p, writeLinkReturn([rec EXCEPT !.i = @ + 1], <<>>,
                     getUniqueKeyError(ErrorfText("couldn't generate a unique key"))))
    /\ UNCHANGED <<keyToLinkTable, linkExistsTable, keyToUrl, config, monitor, tally, calls>>

\* writeLink going on to the second HSET whatever the first one returned
writeLinkAfterFirstHSetIgnoresError(rec, ok) ==
    [rec EXCEPT !.pc = "HSetLinkExists", !.nHSet = IF ok THEN @ + 1 ELSE @]

\* writeLink after its first HSET: on to the second HSET, or out with the
\* wrapped error
writeLinkAfterFirstHSet(rec, ok) ==
    IF ok THEN [rec EXCEPT !.pc = "HSetLinkExists", !.nHSet = @ + 1]
    ELSE writeLinkReturn(rec, rec.key,
                         Errorf("saving key and link", "%w", redisFailure))

\* writeLink: HSET keyToLinkTable key linkb64
HSetKeyToLink(p) ==
    /\ proc[p].pc = "HSetKeyToLink"
    /\ \E ok \in StoreOutcomes :
        LET rec == [proc[p] EXCEPT !.failed = @ \/ ~ok]
        IN  /\ keyToLinkTable' =
                    IF ok THEN HSet(keyToLinkTable, rec.key, rec.linkb64)
                    ELSE keyToLinkTable
            /\ Move(p, writeLinkAfterFirstHSet(rec, ok))
    /\ UNCHANGED <<linkExistsTable, keyToUrl, config, monitor, tally, calls>>

\* writeLink: HSET linkExistsTable hash key
HSetLinkExists(p) ==
    /\ proc[p].pc = "HSetLinkExists"
    /\ \E ok \in StoreOutcomes :
        LET rec == [proc[p] EXCEPT !.failed = @ \/ ~ok]
        IN  IF ok THEN
                 /\ linkExistsTable' = HSet(linkExistsTable, rec.hash, rec.key)
                 /\ Move(p, writeLinkReturn([rec EXCEPT !.nHSet = @ + 1], rec.key, nil))
            ELSE
                 /\ UNCHANGED linkExistsTable
                 /\ Move(p, writeLinkReturn(rec, rec.key,
                             Errorf("saving hash of link", "%w", redisFailure)))
    /\ UNCHANGED <<keyToLinkTable, keyToUrl, config, monitor, tally, calls>>


(***************************************************************************)
(* operationKeyToLink, dangan.getLink and the cache keyToUrl.              *)
(***************************************************************************)
\* go-cache: an item is expired once the clock is past its expiration
Expired(item) == item.age > keyToUrlExpire

\* the cache without expiry: an item is found as long as it is there
CacheFoundIgnoresExpiry(c, key) == key \in DOMAIN c

\* keyToUrl.Get: found only if the item is there and not expired
CacheFound(c, key) == key \in DOMAIN c /\ ~Expired(c[key])

\* keyToUrl.Add with the default expiration: stores the item unless an
\* unexpired item is there already (the error it then returns is dropped)
CacheAdd(c, key, url) ==
    IF CacheFound(c, key) THEN c ELSE HSet(c, key, [object |-> url, age |-> 0])

\* history: goroutine r has finished, alone, a resolve of key that missed the
\* cache and found the key in the store
MissFound(r, key) ==
    /\ proc[r].pc = "done" /\ proc[r].op = "resolve" /\ proc[r].key = key
    /\ proc[r].nHGet = 1 /\ proc[r].nCacheAdd = 1 /\ proc[r].solo

\* operationKeyToLink up to its call of getLink, for a key out of keys
operationKeyToLinkOf(p, keys) ==
    /\ ~Active(p)
    /\ calls < MaxCalls
    /\ \E key \in keys :
        LET rec == [Idle EXCEPT !.op = "resolve", !.key = key,
                                !.expect = {x.link : x \in {y \in issued : y.key = key}},
                                !.prior = {proc[r].finalUrl : r \in
                                    {x \in Procs \ {p} : /\ MissFound(x, key)
                                                         /\ key \in DOMAIN keyToUrl
                                                         /\ ~Expired(keyToUrl[key])}},
                                !.priorExpired = \E r \in Procs \ {p} :
                                    /\ MissFound(r, key)
                                    /\ key \in DOMAIN keyToUrl => Expired(keyToUrl[key])]
        IN  IF ~keyRegexpMatch(key) THEN
             Begin(p, [rec EXCEPT !.pc = "done", !.status = "BadKey",
                                  !.err = ErrorfText("key is invalid")])
            ELSE IF CacheFound(keyToUrl, key) THEN
             Begin(p, [rec EXCEPT !.pc = "done", !.nCacheGet = 1,
                                  !.finalUrl = keyToUrl[key].object,
                                  !.status = "LinkFound"])
            ELSE
             Begin(p, [rec EXCEPT !.pc = "getLink", !.nCacheGet = 1])
    /\ calls' = calls + 1
    /\ UNCHANGED <<keyToLinkTable, linkExistsTable, keyToUrl, config, monitor, tally>>

\* GET /{key}
operationKeyToLink(p) == operationKeyToLinkOf(p, ResolveKeys)

\* dangan.getLink that reports a key that is not there as found, with an
\* empty link
getLinkResultFindsAbsent(table, key, ok) ==
    IF ~ok THEN
        [link |-> <<>>, found |-> FALSE,
         err |-> Errorf("retrieving link for key", "%w", redisFailure)]
    ELSE IF key \notin DOMAIN table THEN
        [link |-> <<>>, found |-> TRUE, err |-> nil]
    ELSE
        [link |-> table[key], found |-> TRUE, err |-> nil]

\* dangan.getLink that reports a failed read as a key that is not there
getLinkResultDropsError(table, key, ok) ==
    IF ok /\ key \in DOMAIN table THEN
        [link |-> table[key], found |-> TRUE, err |-> nil]
    ELSE
        [link |-> <<>>, found |-> FALSE, err |-> nil]

\* dangan.getLink: the HGET of the key in keyToLinkTable; redis.Nil is a key
\* that is not there, any other error is returned
getLinkResult(table, key, ok) ==
    IF ~ok THEN
        [link |-> <<>>, found |-> FALSE,
         err |-> Errorf("retrieving link for key", "%w", redisFailure)]
    ELSE IF key \notin DOMAIN table THEN
        [link |-> <<>>, found |-> FALSE, err |-> nil]
    ELSE
        [link |-> table[key], found |-> TRUE, err |-> nil]

\* operationKeyToLink: its call of getLink and its handling of the result up
\* to the decoding of the link
getLink(p) ==
    /\ proc[p].pc = "getLink"
    /\ \E ok \in StoreOutcomes :
        LET rec == [proc[p] EXCEPT !.nHGet = @ + 1, !.failed = @ \/ ~ok]
            res == getLinkResult(keyToLinkTable, rec.key, ok)
        IN  IF res.err # nil THEN
                 Move(p, [rec EXCEPT !.pc = "done", !.status = "LinkRetrievalError",
                     !.err = Errorf("critical failure during retrieval", "%v", res.err)])
            ELSE IF ~res.found THEN
                 Move(p, [rec EXCEPT !.pc = "done", !.status = "LinkNotFound",
                     !.err = ErrorfText("short url not found")])
            ELSE
                 Move(p, [rec EXCEPT !.pc = "keyToUrlAdd",
                     !.linkb64 = res.link,
                     !.finalUrl = AtobMust(res.link)])
    /\ UNCHANGED <<keyToLinkTable, linkExistsTable, keyToUrl, config, monitor, tally, calls>>

\* operationKeyToLink: the decoded link goes to the cache and to the caller
keyToUrlAdd(p) ==
    /\ proc[p].pc = "keyToUrlAdd"
    /\ keyToUrl' = CacheAdd(keyToUrl, proc[p].key, proc[p].finalUrl)
    /\ Move(p, [proc[p] EXCEPT !.pc = "done", !.status = "LinkFound",
                               !.nCacheAdd = @ + 1])
    /\ UNCHANGED <<keyToLinkTable, linkExistsTable, config, monitor, tally, calls>>

(***************************************************************************)
(* operationExportLinks and dangan.exportLinks.                            *)
(***************************************************************************)
\* the orders in which a range over the map of a hash can visit its fields
Orders(table) ==
    {o \in [1..Cardinality(DOMAIN table) -> DOMAIN table] :
        \A i, j \in DOMAIN o : o[i] = o[j] => i = j}

\* exportLinks that leaves out the first entry it visits
exportLinksResultSkipsFirst(table, order, ok) ==
    IF ~ok THEN
        [links |-> <<>>, err |-> Errorf("getting all links", "%w", redisFailure)]
    ELSE
        [links |-> [j \in 1..(Len(order) - 1) |->
                        order[j + 1] \o <<44>> \o table[order[j + 1]]],
         err |-> nil]

\* exportLinks: HGETALL of keyToLinkTable, then one "key,link" per field in
\* the order the range visits them
exportLinksResult(table, order, ok) ==
    IF ~ok THEN
        [links |-> <<>>, err |-> Errorf("getting all links", "%w", redisFailure)]
    ELSE
        [links |-> [j \in 1..Len(order) |-> order[j] \o <<44>> \o table[order[j]]],
         err |-> nil]

\* GET /export: operationExportLinks
operationExportLinks(p) ==
    /\ ~Active(p)
    /\ calls < MaxCalls
    /\ \E ok \in StoreOutcomes, order \in Orders(keyToLinkTable) :
        LET res == exportLinksResult(keyToLinkTable, order, ok)
            rec == [Idle EXCEPT !.op = "export", !.pc = "done", !.nHGet = 1,
                                !.failed = ~ok]
        IN  IF res.err # nil THEN
                 Begin(p, [rec EXCEPT !.status = "Uncategorized",
                     !.err = Errorf("critical failure during export", "%v", res.err)])
            ELSE
                 Begin(p, [rec EXCEPT !.status = "Success", !.links = res.links])
    /\ calls' = calls + 1
    /\ UNCHANGED <<keyToLinkTable, linkExistsTable, keyToUrl, config, monitor, tally>>

\* the clock advances by d hours (time is observable only through the ages
\* of the cache's items; an age past keyToUrlExpire stays past it)
Tick(d) ==
    /\ \E k \in DOMAIN keyToUrl : ~Expired(keyToUrl[k])
    /\ keyToUrl' = [k \in DOMAIN keyToUrl |->
                        [keyToUrl[k] EXCEPT !.age =
                            IF @ + d > keyToUrlExpire THEN keyToUrlExpire + 1 ELSE @ + d]]
    /\ UNCHANGED <<keyToLinkTable, linkExistsTable, proc, config, monitor, tally, calls, issued>>

\* the cache's janitor, run every KeytoUrlCleanup: DeleteExpired
Janitor ==
    /\ \E k \in DOMAIN keyToUrl : Expired(keyToUrl[k])
    /\ keyToUrl' = [k \in {x \in DOMAIN keyToUrl : ~Expired(keyToUrl[x])} |-> keyToUrl[k]]
    /\ UNCHANGED <<keyToLinkTable, linkExistsTable, proc, config, monitor, tally, calls, issued>>

(***************************************************************************)
(* The server: requests arrive through the two handlers.                   *)
(***************************************************************************)
Next ==
    \/ \E p \in Procs : operationCreateLink(p)
    \/ \E p \in Procs : isLinkAlreadyShortened(p)
    \/ \E p \in Procs : getUniqueKeyCustomKey(p)
    \/ \E p \in Procs : HSetKeyToLink(p)
    \/ \E p \in Procs : HSetLinkExists(p)
    \/ \E p \in Procs : operationKeyToLink(p)
    \/ \E p \in Procs : getLink(p)
    \/ \E p \in Procs : keyToUrlAdd(p)
    \/ \E p \in Procs : operationExportLinks(p)
    \/ \E d \in {keyToUrlExpire, keyToUrlExpire + 1} : Tick(d)
    \/ Janitor

Spec == Init /\ [][Next]_vars


(***************************************************************************)
(* dangan.writeLink on its own: callers hand it any encoded link and any   *)
(* custom key, the empty one included, over any configuration; the keys    *)
(* are resolved through operationKeyToLink.                                *)
(***************************************************************************)
\* the custom keys of the direct calls: none and "abc"
WriteLinkKeys == {<<>>, KeyABC}

\* the configurations of the key generator: size, alphabet and tries
GenConfigs ==
    { [keysize |-> 1, alphabet |-> AlphabetAB, maxNumGenTries |-> 2],
      [keysize |-> 2, alphabet |-> <<97>>, maxNumGenTries |-> 0] }

\* a call of writeLink(linkb64, customKey)
writeLink(p) ==
    /\ ~Active(p)
    /\ calls < MaxCalls
    /\ \E link \in {LinkAB, LinkAC}, customKey \in WriteLinkKeys :
        Begin(p, [Idle EXCEPT !.op = "writeLink",
                              !.pc = "isLinkAlreadyShortened",
                              !.linkb64 = Btao(link),
                              !.customKey = customKey,
                              !.preTaken = customKey \in DOMAIN keyToLinkTable,
                              !.genTaken = Candidates \subseteq DOMAIN keyToLinkTable,
                              !.orphans = Orphans(Btao(link))])
    /\ calls' = calls + 1
    /\ UNCHANGED <<keyToLinkTable, linkExistsTable, keyToUrl, config, monitor, tally>>

InitWriteLink ==
    /\ keyToLinkTable = EmptyTable
    /\ linkExistsTable = EmptyTable
    /\ keyToUrl = EmptyTable
    /\ proc = [p \in Procs |-> Idle]
    /\ \E c \in GenConfigs :
        /\ keysize = c.keysize
        /\ alphabet = c.alphabet
        /\ maxNumGenTries = c.maxNumGenTries
    /\ calls = 0
    /\ issued = {}
    /\ monitor = [pc |-> "check", numFailures |-> 0, failedInARow |-> 0]
    /\ tally = [v |-> 0, count |-> <<>>]

NextWriteLink ==
    \/ \E p \in Procs : writeLink(p)
    \/ \E p \in Procs : isLinkAlreadyShortened(p)
    \/ \E p \in Procs : getUniqueKeyCustomKey(p)
    \/ \E p \in Procs : getUniqueKeyGenerated(p)
    \/ \E p \in Procs : HSetKeyToLink(p)
    \/ \E p \in Procs : HSetLinkExists(p)
    \/ \E p \in Procs : operationKeyToLinkOf(p, {KeyABC})
    \/ \E p \in Procs : getLink(p)
    \/ \E p \in Procs : keyToUrlAdd(p)

SpecWriteLink == InitWriteLink /\ [][NextWriteLink]_vars


(***************************************************************************)
(* gen on its own, over key sizes, alphabets and random values.            *)
(***************************************************************************)
\* the key sizes of the calls of gen
GenSizes == {0, 1, 2, 3}

\* the alphabets: "a", "ab", "abc", and two with a letter outside ASCII,
\* "\u00e9" and "a\u00e9" (the letter is the bytes 195, 169)
GenAlphabets ==
    { <<97>>, AlphabetAB, <<97, 98, 99>>, <<195, 169>>, <<97, 195, 169>> }

\* the 16-bit values the random source yields in the calls of gen
GenRandVals == {0, 1, 2, 65535}

\* a call of gen()
genCall(p) ==
    /\ ~Active(p)
    /\ calls < MaxCalls
    /\ \E rands \in [1..keysize -> GenRandVals] :
        Begin(p, [Idle EXCEPT !.op = "gen", !.pc = "done",
                              !.key = gen(keysize, alphabet, rands)])
    /\ calls' = calls + 1
    /\ UNCHANGED <<keyToLinkTable, linkExistsTable, keyToUrl, config, monitor, tally>>

InitGen ==
    /\ keyToLinkTable = EmptyTable
    /\ linkExistsTable = EmptyTable
    /\ keyToUrl = EmptyTable
    /\ proc = [p \in Procs |-> Idle]
    /\ keysize \in GenSizes
    /\ alphabet \in GenAlphabets
    /\ maxNumGenTries = 2
    /\ calls = 0
    /\ issued = {}
    /\ monitor = [pc |-> "check", numFailures |-> 0, failedInARow |-> 0]
    /\ tally = [v |-> 0, count |-> <<>>]

NextGen == \E p \in Procs : genCall(p)

SpecGen == InitGen /\ [][NextGen]_vars

(***************************************************************************)
(* One character position of gen over every 16-bit random value.           *)
(***************************************************************************)
\* the number of values of the two random bytes
RandRange == 65536

\* the length of the default alphabet
DefaultAlphabetLen == 52

\* the lengths of the alphabets: the small ones, the default one and 256
TallyLengths == (1..MaxAlphabetLen) \cup {DefaultAlphabetLen, 256}

\* the index gen takes for the next 16-bit value is counted
genIndexTally ==
    /\ tally.v < RandRange
    /\ tally' = [v |-> tally.v + 1,
                 count |-> [tally.count EXCEPT ![genIndex(alphabet, tally.v)] = @ + 1]]
    /\ UNCHANGED <<keyToLinkTable, linkExistsTable, keyToUrl, proc, config,
                   monitor, calls, issued>>

InitTally ==
    /\ keyToLinkTable = EmptyTable
    /\ linkExistsTable = EmptyTable
    /\ keyToUrl = EmptyTable
    /\ proc = [p \in Procs |-> Idle]
    /\ keysize = 1
    /\ \E n \in TallyLengths :
        /\ alphabet = [j \in 1..n |-> 97]
        /\ tally = [v |-> 0, count |-> [j \in 1..n |-> 0]]
    /\ maxNumGenTries = 2
    /\ calls = 0
    /\ issued = {}
    /\ monitor = [pc |-> "check", numFailures |-> 0, failedInARow |-> 0]

NextTally == genIndexTally

SpecTally == InitTally /\ [][NextTally]_vars


(***************************************************************************)
(* dangan.keepAlive: the goroutine that pings the three connections.       *)
(***************************************************************************)
\* the connections in the order keepAlive pings them
Connections == <<"client", "connGetter", "connPusher">>

\* pinger that resets numFailures only when the ping went through
pingerResetsOnSuccess(numFailures, ok) ==
    IF ~ok THEN numFailures + 1 ELSE 0

\* pinger: numFailures after one ping whose outcome is ok
pinger(numFailures, ok) ==
    LET incremented == IF ~ok THEN numFailures + 1 ELSE numFailures
    IN  0

\* keepAlive: the test at the top of the loop; log.Fatalf ends the process
keepAliveCheck ==
    /\ monitor.pc = "check"
    /\ monitor' = IF monitor.numFailures > maxNumKeepAliveFailures * 3
                  THEN [monitor EXCEPT !.pc = "exited"]
                  ELSE [monitor EXCEPT !.pc = Connections[1]]
    /\ UNCHANGED <<keyToLinkTable, linkExistsTable, keyToUrl, proc, config,
                   calls, issued, tally>>

\* keepAlive: the ping of connection number c, then the next connection or,
\* after the last one, the sleep and the top of the loop
keepAlivePing(c) ==
    /\ monitor.pc = Connections[c]
    /\ \E ok \in StoreOutcomes :
        /\ ~ok => monitor.failedInARow < MaxPingFailures
        /\ monitor' = [pc |-> IF c < Len(Connections) THEN Connections[c + 1]
                                                       ELSE "check",
                       numFailures |-> pinger(monitor.numFailures, ok),
                       failedInARow |-> IF ok THEN 0 ELSE monitor.failedInARow + 1]
    /\ UNCHANGED <<keyToLinkTable, linkExistsTable, keyToUrl, proc, config,
                   calls, issued, tally>>

NextKeepAlive ==
    \/ keepAliveCheck
    \/ \E c \in 1..Len(Connections) : keepAlivePing(c)

SpecKeepAlive == Init /\ [][NextKeepAlive]_vars


(***************************************************************************)
(* Properties.                                                             *)
(***************************************************************************)
Done(p) == proc[p].pc = "done"

\* the link a request body carries
LinkOf(linkReader) == TrimSpace(linkReader.data)

\* the bodies that creation accepts as a link
AcceptableReaders ==
    {r \in Readers :
        /\ ~r.fails
        /\ Len(LinkOf(r)) > 0
        /\ ~HasNewline(LinkOf(r))
        /\ URLRegexpMatch(LinkOf(r))}

AcceptableLink(linkReader) == linkReader \in AcceptableReaders

\* 3 to 10 characters, each a letter, a digit or a hyphen
KeyShapeOK(k) ==
    /\ Len(k) >= 3
    /\ Len(k) <= 10
    /\ \A j \in 1..Len(k) :
        k[j] = 45 \/ k[j] \in 48..57 \/ k[j] \in 65..90 \/ k[j] \in 97..122

HasMsg(err, text) == \E j \in 1..Len(err.msg) : err.msg[j] = text

\* a finished createLink request whose body is an acceptable link
CreatedWith(p) ==
    Done(p) /\ proc[p].op = "create" /\ AcceptableLink(proc[p].linkReader)

\* C1: a createLink(L) without a custom key that runs alone and meets no
\* store error returns Success with a key k such that KeyToLink[k] is the
\* encoded L and HashToKey[hash] is k; it writes both tables when the content
\* was new and writes nothing when the content was already shortened
C1_DedupIdempotence ==
    \A p \in Procs :
        (CreatedWith(p) /\ proc[p].customKey = <<>> /\ proc[p].solo /\ ~proc[p].failed)
            => /\ proc[p].status = "Success"
               /\ proc[p].key \in DOMAIN keyToLinkTable
               /\ keyToLinkTable[proc[p].key] = Btao(LinkOf(proc[p].linkReader))
               /\ Sha256(Btao(LinkOf(proc[p].linkReader))) \in DOMAIN linkExistsTable
               /\ linkExistsTable[Sha256(Btao(LinkOf(proc[p].linkReader)))] = proc[p].key
               /\ proc[p].nHSet = (IF proc[p].exists THEN 0 ELSE 2)

\* C2: createLink with an acceptable link and no custom key, meeting no store
\* error, is not rejected as a bad key: it returns Success with the key of
\* the content or with a generated key (keysize characters of the alphabet)
C2_NoKeyGetsGeneratedKey ==
    \A p \in Procs :
        (CreatedWith(p) /\ proc[p].customKey = <<>> /\ ~proc[p].failed)
            => /\ proc[p].status # "BadKey"
               /\ proc[p].status = "Success"
               /\ \/ proc[p].exists
                  \/ /\ Len(proc[p].key) = keysize
                     /\ \A j \in 1..Len(proc[p].key) :
                            \E a \in 1..Len(alphabet) : proc[p].key[j] = alphabet[a]

\* C3: a resolve(k) that meets no store error, issued after createLink(L)
\* returned k with Success, returns L (the link of the body, surrounding
\* white space removed) with LinkFound, whatever ran in between
C3_RoundTrip ==
    \A p \in Procs :
        (Done(p) /\ proc[p].op = "resolve" /\ ~proc[p].failed)
            => \A L \in proc[p].expect :
                    proc[p].status = "LinkFound" /\ proc[p].finalUrl = L

\* C4 as claimed: every createLink(L, K) issued when KeyToLink contains K
\* (L acceptable, no store error) fails with the conflict error, returns no
\* key and writes nothing
C4_ConflictAlways ==
    \A p \in Procs :
        (CreatedWith(p) /\ proc[p].preTaken /\ ~proc[p].failed)
            => /\ HasMsg(proc[p].err, "custom key already exists")
               /\ proc[p].key = <<>>
               /\ proc[p].nHSet = 0

\* C4 as amended: a createLink(L, K) issued when KeyToLink contains K (L
\* acceptable, no store error) writes nothing; when its lookup of L's hash
\* misses it fails with the conflict error and returns no key, and when the
\* lookup hits it returns Success
C4_ConflictUnlessShortened ==
    \A p \in Procs :
        (CreatedWith(p) /\ proc[p].preTaken /\ ~proc[p].failed)
            => /\ proc[p].nHSet = 0
               /\ IF proc[p].exists
                  THEN proc[p].status = "Success" /\ proc[p].err = nil
                  ELSE /\ HasMsg(proc[p].err, "custom key already exists")
                       /\ proc[p].status = "Uncategorized"
                       /\ proc[p].key = <<>>

\* a conflict was reported for a key that was taken and a link that was new
C4_Witness ==
    \E p \in Procs :
        /\ CreatedWith(p) /\ proc[p].preTaken /\ ~proc[p].failed /\ ~proc[p].exists
        /\ HasMsg(proc[p].err, "custom key already exists")
        /\ proc[p].customKey \in DOMAIN keyToLinkTable

\* C5: the error of a taken custom key is identified as errKeyExists, so
\* writeLink returns it through its conflict branch, without the context it
\* puts on the other errors of getUniqueKey
C5_ConflictIsDistinct ==
    \A p \in Procs :
        (Done(p) /\ HasMsg(proc[p].err, "custom key already exists"))
            => ~HasMsg(proc[p].err, "getting unique key for link")

\* C6: an entry of KeyToLink keeps its value and is never removed
C6_KeyToLinkImmutable ==
    [][\A k \in DOMAIN keyToLinkTable :
            k \in DOMAIN keyToLinkTable' /\ keyToLinkTable'[k] = keyToLinkTable[k]]_vars

\* C7: an entry of HashToKey is never removed and keeps its key after any
\* sequence of createLink calls: no step changes it, except the write of a
\* createLink call that ran while another request was in flight
C7_HashToKeyImmutableWhenSequential ==
    [][\A h \in DOMAIN linkExistsTable :
            /\ h \in DOMAIN linkExistsTable'
            /\ \/ linkExistsTable'[h] = linkExistsTable[h]
               \/ \E p \in Procs :
                    /\ proc[p].pc = "HSetLinkExists"
                    /\ proc'[p].pc = "done"
                    /\ ~proc[p].solo]_vars

\* a call that ran alone asked for another key for content already shortened
\* and was answered with the key of the content
C7_Witness ==
    \E p \in Procs :
        /\ CreatedWith(p) /\ proc[p].solo /\ proc[p].exists
        /\ proc[p].status = "Success"
        /\ proc[p].key # proc[p].customKey
        /\ linkExistsTable[proc[p].hash] = proc[p].key

\* C8: createLink (with an acceptable link) and resolve answer BadKey exactly
\* for the keys that are not 3 to 10 characters of [-0-9a-zA-Z]
C8_KeyFormat ==
    \A p \in Procs :
        /\ CreatedWith(p) => (proc[p].status = "BadKey" <=> ~KeyShapeOK(proc[p].customKey))
        /\ (Done(p) /\ proc[p].op = "resolve")
                => (proc[p].status = "BadKey" <=> ~KeyShapeOK(proc[p].key))

\* a key of 11 characters was rejected by createLink while a key of 10
\* characters is bound to a link
C8_Witness ==
    /\ \E p \in Procs :
        CreatedWith(p) /\ proc[p].status = "BadKey" /\ Len(proc[p].customKey) = 11
    /\ \E k \in DOMAIN keyToLinkTable : Len(k) = 10

\* C9: createLink with an acceptable link and a free custom key of allowed
\* characters, meeting no store error, accepts the key when it has 37
\* characters and rejects it when it has 38
C9_CustomKeyMaxLength ==
    \A p \in Procs :
        (CreatedWith(p) /\ ~proc[p].failed /\ ~proc[p].preTaken
                /\ AllIn(proc[p].customKey, keyClass))
            => /\ Len(proc[p].customKey) = customKeyMaxLength
                    => proc[p].status = "Success"
               /\ Len(proc[p].customKey) = customKeyMaxLength + 1
                    => proc[p].status # "Success"

\* the outcome of a request is a validation error
ValidationError(p) ==
    \/ proc[p].status \in {"BadLink", "BadKey"}
    \/ HasMsg(proc[p].err, "custom key is too long")

\* C10: a request that ends in a validation error has issued no redis
\* command and has neither read nor written the cache
C10_ValidationTouchesNothing ==
    \A p \in Procs :
        (Done(p) /\ ValidationError(p))
            => /\ proc[p].nHGet = 0
               /\ proc[p].nHSet = 0
               /\ proc[p].nCacheGet = 0
               /\ proc[p].nCacheAdd = 0

\* an over-long custom key was rejected while the tables hold entries
C10_Witness ==
    /\ \E p \in Procs :
        /\ CreatedWith(p)
        /\ Len(proc[p].customKey) > customKeyMaxLength
        /\ proc[p].status = "BadKey"
    /\ DOMAIN keyToLinkTable # {}

\* a finished direct call of writeLink without a custom key that met no store
\* error and whose lookup of the content missed: getUniqueKey ran its
\* generation loop
GeneratedWith(p) ==
    /\ Done(p) /\ proc[p].op = "writeLink" /\ proc[p].customKey = <<>>
    /\ ~proc[p].failed /\ ~proc[p].exists

\* C11: when no custom key is given and every key the generator can produce
\* was in KeyToLink when the call began, getUniqueKey makes exactly
\* maxNumGenTries existence checks (after the one lookup of the content),
\* fails with the exhaustion error, returns no key and writes nothing
C11_Exhaustion ==
    \A p \in Procs :
        (GeneratedWith(p) /\ proc[p].genTaken)
            => /\ proc[p].i = maxNumGenTries
               /\ proc[p].nHGet = 1 + maxNumGenTries
               /\ HasMsg(proc[p].err, "couldn't generate a unique key")
               /\ proc[p].key = <<>>
               /\ proc[p].nHSet = 0

\* a call gave up after two tries because every key of the generator was
\* taken
C11_Witness ==
    \E p \in Procs :
        /\ GeneratedWith(p) /\ proc[p].genTaken
        /\ maxNumGenTries = 2
        /\ proc[p].nHGet = 3
        /\ HasMsg(proc[p].err, "couldn't generate a unique key")
        /\ Candidates # {} /\ Candidates \subseteq DOMAIN keyToLinkTable

\* C12: a resolve(k) issued after another resolve(k) missed the cache and
\* found k in the store, while the cached entry has not expired, returns the
\* URL the earlier resolve returned, with LinkFound and without a store call;
\* a resolve(k) issued once the entry has expired makes its store call and,
\* finding k, leaves the cache with an unexpired entry for k (a fresh entry
\* with the link it returns when it ran alone). The earlier resolve is one
\* that ran alone.
C12_CacheCorrectness ==
    /\ [](\A p \in Procs :
            (Done(p) /\ proc[p].op = "resolve")
                => /\ \A url \in proc[p].prior :
                        /\ proc[p].status = "LinkFound"
                        /\ proc[p].finalUrl = url
                        /\ proc[p].nHGet = 0
                   /\ proc[p].priorExpired
                        => /\ proc[p].nHGet = 1
                           /\ proc[p].status = "LinkFound" => proc[p].nCacheAdd = 1)
    /\ [][\A p \in Procs :
            (proc[p].pc = "keyToUrlAdd" /\ proc'[p].pc = "done")
                => /\ CacheFound(keyToUrl', proc[p].key)
                   /\ (proc[p].priorExpired /\ proc[p].solo)
                        => keyToUrl'[proc[p].key] =
                                [object |-> proc'[p].finalUrl, age |-> 0]]_vars

\* a resolve was answered from the cache with the URL that an earlier resolve
\* of the key had fetched from the store
C12_Witness ==
    \E p \in Procs :
        /\ Done(p) /\ proc[p].op = "resolve"
        /\ proc[p].prior # {}
        /\ proc[p].status = "LinkFound" /\ proc[p].nHGet = 0
        /\ \E r \in Procs \ {p} :
                MissFound(r, proc[p].key) /\ proc[r].finalUrl = proc[p].finalUrl

\* C13: a resolve of a well-formed key that missed the cache ends, when the
\* read of the store fails, with LinkRetrievalError and an error; when
\* KeyToLink has no entry for the key, with LinkNotFound and an error; and
\* when it has one, with LinkFound, no error and the link whose encoding the
\* entry holds. No step of a resolve changes KeyToLink or HashToKey.
C13_ResolveOutcomes ==
    [][\A p \in Procs :
        /\ (proc[p].op = "resolve" /\ proc'[p] # proc[p])
                => /\ keyToLinkTable' = keyToLinkTable
                   /\ linkExistsTable' = linkExistsTable
        /\ (proc[p].pc = "getLink" /\ proc'[p].pc # "getLink")
                => IF proc'[p].failed THEN
                        /\ proc'[p].pc = "done"
                        /\ proc'[p].status = "LinkRetrievalError"
                        /\ proc'[p].err # nil
                   ELSE IF proc[p].key \notin DOMAIN keyToLinkTable THEN
                        /\ proc'[p].pc = "done"
                        /\ proc'[p].status = "LinkNotFound"
                        /\ proc'[p].err # nil
                   ELSE
                        /\ proc'[p].pc = "keyToUrlAdd"
                        /\ Btao(proc'[p].finalUrl) = keyToLinkTable[proc[p].key]
        /\ (proc[p].pc = "keyToUrlAdd" /\ proc'[p].pc # "keyToUrlAdd")
                => /\ proc'[p].pc = "done"
                   /\ proc'[p].status = "LinkFound"
                   /\ proc'[p].err = nil
                   /\ proc'[p].finalUrl = proc[p].finalUrl]_vars

\* one resolve fetched a link from the store and another found no entry for
\* its key
C13_Witness ==
    \E p, q \in Procs :
        /\ Done(p) /\ proc[p].op = "resolve" /\ proc[p].nHGet = 1
        /\ proc[p].status = "LinkFound"
        /\ Btao(proc[p].finalUrl) = keyToLinkTable[proc[p].key]
        /\ Done(q) /\ proc[q].op = "resolve" /\ proc[q].nHGet = 1
        /\ proc[q].status = "LinkNotFound"
        /\ proc[q].key \notin DOMAIN keyToLinkTable

\* C14: the failure counter holds at least the pings that failed in a row,
\* so the process does not outlive 3 * maxNumKeepAliveFailures failed pings
\* in a row by more than the cycle of three pings it is in
C14_FailFast ==
    monitor.pc # "exited"
        => /\ monitor.numFailures >= monitor.failedInARow
           /\ monitor.failedInARow <= 3 * maxNumKeepAliveFailures + 3

\* the characters of a string of valid UTF-8 with characters below 2048
RECURSIVE Utf8Decode(_)
Utf8Decode(str) ==
    IF str = <<>> THEN <<>>
    ELSE IF str[1] < 128 THEN <<str[1]>> \o Utf8Decode(Tail(str))
    ELSE <<(str[1] - 192) * 64 + (str[2] - 128)>> \o Utf8Decode(Tail(Tail(str)))

\* C15: gen() returns a key of exactly keysize characters, each of them a
\* character of the alphabet
C15_GeneratedKeyShape ==
    \A p \in Procs :
        (Done(p) /\ proc[p].op = "gen")
            => LET key == Utf8Decode(proc[p].key)
                   letters == Utf8Decode(alphabet)
               IN  /\ Len(key) = keysize
                   /\ \A j \in 1..Len(key) :
                        \E a \in 1..Len(letters) : key[j] = letters[a]

\* C16: a step of exportAll changes neither table nor the cache; when the
\* read fails it returns no list and Uncategorized; otherwise it returns
\* Success and a list with as many strings as KeyToLink has entries at that
\* instant, holding "key,encodedLink" of every entry
C16_Export ==
    [][\A p \in Procs :
        (proc'[p].op = "export" /\ proc'[p] # proc[p])
            => /\ keyToLinkTable' = keyToLinkTable
               /\ linkExistsTable' = linkExistsTable
               /\ keyToUrl' = keyToUrl
               /\ proc'[p].pc = "done"
               /\ IF proc'[p].failed THEN
                        /\ proc'[p].status = "Uncategorized"
                        /\ proc'[p].err # nil
                        /\ proc'[p].links = <<>>
                  ELSE
                        /\ proc'[p].status = "Success"
                        /\ proc'[p].err = nil
                        /\ Len(proc'[p].links) = Cardinality(DOMAIN keyToLinkTable)
                        /\ \A k \in DOMAIN keyToLinkTable :
                                \E j \in 1..Len(proc'[p].links) :
                                    proc'[p].links[j] = k \o <<44>> \o keyToLinkTable[k]]_vars

\* an export returned the two entries of KeyToLink while HashToKey held
\* entries as well
C16_Witness ==
    \E p \in Procs :
        /\ Done(p) /\ proc[p].op = "export" /\ proc[p].status = "Success"
        /\ Len(proc[p].links) = 2
        /\ Cardinality(DOMAIN keyToLinkTable) = 2
        /\ \A k \in DOMAIN keyToLinkTable :
                \E j \in 1..2 : proc[p].links[j] = k \o <<44>> \o keyToLinkTable[k]
        /\ DOMAIN linkExistsTable # {}

\* C17: a createLink(L) whose write of KeyToLink succeeds and whose write of
\* HashToKey fails reports an error; and a later createLink(L) without a
\* custom key that runs alone and meets no store error, issued while a key is
\* bound to L and HashToKey has no entry for L, returns Success with a
\* second key bound to L
C17_InconsistencyWindow ==
    \A p \in Procs :
        /\ (CreatedWith(p) /\ proc[p].nHSet = 1 /\ proc[p].failed)
                => proc[p].status = "Uncategorized" /\ proc[p].err # nil
        /\ (CreatedWith(p) /\ proc[p].customKey = <<>> /\ proc[p].solo
                /\ ~proc[p].failed /\ proc[p].orphans # {})
                => /\ proc[p].status = "Success"
                   /\ proc[p].key \notin proc[p].orphans
                   /\ proc[p].key \in DOMAIN keyToLinkTable
                   /\ keyToLinkTable[proc[p].key] = Btao(LinkOf(proc[p].linkReader))

\* two finished createLink calls for the same content, new to both tables
\* when each began, that both missed the lookup of HashToKey and both
\* returned Success, with different keys
Raced(p, q) ==
    /\ p # q /\ CreatedWith(p) /\ CreatedWith(q)
    /\ proc[p].linkb64 = proc[q].linkb64
    /\ ~proc[p].exists /\ ~proc[q].exists
    /\ proc[p].orphans = {} /\ proc[q].orphans = {}
    /\ proc[p].status = "Success" /\ proc[q].status = "Success"
    /\ proc[p].key # proc[q].key

\* C18: when two createLink calls for the same new content have both missed
\* the lookup and both succeeded with different keys, both keys are in
\* KeyToLink and HashToKey holds one of the two; each call's write of
\* KeyToLink bound its key to the content, and every write of HashToKey
\* leaves the writer's key in the entry, so the last writer's stays
C18_DedupRace ==
    /\ [](\A p, q \in Procs :
            Raced(p, q)
                => /\ proc[p].key \in DOMAIN keyToLinkTable
                   /\ proc[q].key \in DOMAIN keyToLinkTable
                   /\ proc[p].hash \in DOMAIN linkExistsTable
                   /\ linkExistsTable[proc[p].hash] \in {proc[p].key, proc[q].key})
    /\ [][\A p \in Procs :
            /\ (proc[p].pc = "HSetKeyToLink" /\ proc'[p].pc = "HSetLinkExists")
                => /\ proc[p].key \in DOMAIN keyToLinkTable'
                   /\ keyToLinkTable'[proc[p].key] = proc[p].linkb64
            /\ (proc[p].pc = "HSetLinkExists" /\ proc'[p].pc = "done"
                    /\ ~proc'[p].failed)
                => /\ proc[p].hash \in DOMAIN linkExistsTable'
                   /\ linkExistsTable'[proc[p].hash] = proc[p].key]_vars

\* the race has happened: two calls for the same new content both succeeded,
\* two keys are bound to the content and HashToKey holds the key of one call
\* although the other call wrote its key as well
C18_Witness ==
    \E p, q \in Procs :
        /\ Raced(p, q)
        /\ proc[p].nHSet = 2 /\ proc[q].nHSet = 2
        /\ keyToLinkTable[proc[p].key] = proc[p].linkb64
        /\ keyToLinkTable[proc[q].key] = proc[p].linkb64
        /\ linkExistsTable[proc[p].hash] = proc[q].key

\* C19: when the lookup of createLink(L, K') finds an entry k for the content
\* of L in HashToKey, the call ends there: it returns k with Success, has
\* issued that one read and no write, and leaves both tables as they were
C19_DedupShortCircuit ==
    [][\A p \in Procs :
        (/\ proc[p].pc = "isLinkAlreadyShortened"
         /\ proc[p].op = "create"
         /\ proc'[p].pc # "isLinkAlreadyShortened"
         /\ ~proc'[p].failed
         /\ Sha256(proc[p].linkb64) \in DOMAIN linkExistsTable)
            => /\ proc'[p].pc = "done"
               /\ proc'[p].status = "Success"
               /\ proc'[p].err = nil
               /\ proc'[p].key = linkExistsTable[Sha256(proc[p].linkb64)]
               /\ proc'[p].nHGet = 1
               /\ proc'[p].nHSet = 0
               /\ keyToLinkTable' = keyToLinkTable
               /\ linkExistsTable' = linkExistsTable]_vars

\* a call with a free custom key was answered with the key of the content,
\* and the custom key stayed free
C19_Witness ==
    \E p \in Procs :
        /\ CreatedWith(p) /\ proc[p].exists /\ ~proc[p].failed
        /\ proc[p].status = "Success"
        /\ KeyShapeOK(proc[p].customKey)
        /\ proc[p].key # proc[p].customKey
        /\ proc[p].customKey \notin DOMAIN keyToLinkTable
        /\ proc[p].nHGet = 1 /\ proc[p].nHSet = 0
        /\ linkExistsTable[proc[p].hash] = proc[p].key

\* the larger of two numbers
Max(a, b) == IF a > b THEN a ELSE b

\* C20: a store error ends the call at once, with an error; a call of
\* writeLink issues at most 1 + max(1, maxNumGenTries) reads (the lookup of
\* the content and the existence checks) and at most 2 writes, and a resolve
\* issues at most 1 read and no write
C20_BoundedWork ==
    \A p \in Procs :
        /\ proc[p].failed => (Done(p) /\ proc[p].err # nil)
        /\ proc[p].op = "writeLink"
                => /\ proc[p].nHGet <= 1 + Max(1, maxNumGenTries)
                   /\ proc[p].nHSet <= 2
        /\ proc[p].op = "resolve"
                => /\ proc[p].nHGet <= 1
                   /\ proc[p].nHSet = 0

\* a call of writeLink ended on the failure of its second existence check,
\* after three reads and no write, and a resolve ended after its one read
C20_Witness ==
    \E p, q \in Procs :
        /\ Done(p) /\ proc[p].op = "writeLink" /\ proc[p].customKey = <<>>
        /\ proc[p].failed /\ proc[p].err # nil
        /\ maxNumGenTries = 2
        /\ proc[p].nHGet = 3 /\ proc[p].nHSet = 0
        /\ Done(q) /\ proc[q].op = "resolve" /\ proc[q].nHGet = 1

\* a step writes the cache: an item appears, or an item's object changes, or
\* an item's age starts again
CacheWritten ==
    \E k \in DOMAIN keyToUrl' :
        \/ k \notin DOMAIN keyToUrl
        \/ keyToUrl'[k].object # keyToUrl[k].object
        \/ keyToUrl'[k].age < keyToUrl[k].age

\* C21: the cache is written only by the last step of a resolve that missed
\* the cache, read the store once and found its key there, and that returns
\* LinkFound; so a resolve of a key that createLink has answered with
\* Success finds it, whatever resolves of the key failed before
C21_CacheWrittenOnlyOnResolveMiss ==
    /\ [][CacheWritten
            => \E p \in Procs :
                /\ proc[p].pc = "keyToUrlAdd" /\ proc[p].op = "resolve"
                /\ proc[p].nCacheGet = 1 /\ proc[p].nHGet = 1
                /\ proc[p].key \in DOMAIN keyToLinkTable
                /\ proc'[p].pc = "done" /\ proc'[p].status = "LinkFound"
                /\ \A k \in DOMAIN keyToUrl' :
                        k # proc[p].key
                            => k \in DOMAIN keyToUrl /\ keyToUrl'[k] = keyToUrl[k]]_vars
    /\ [](\A p \in Procs :
            (Done(p) /\ proc[p].op = "resolve" /\ ~proc[p].failed
                /\ proc[p].expect # {})
                => proc[p].status = "LinkFound")

\* one resolve found no entry for its key and left no item for it in the
\* cache, while the cache holds the item of a resolve that fetched its link
\* from the store
C21_Witness ==
    \E p, q \in Procs :
        /\ Done(p) /\ proc[p].op = "resolve" /\ proc[p].status = "LinkNotFound"
        /\ proc[p].key \notin DOMAIN keyToUrl
        /\ Done(q) /\ proc[q].op = "resolve" /\ proc[q].status = "LinkFound"
        /\ proc[q].nHGet = 1 /\ proc[q].nCacheAdd = 1
        /\ proc[q].key \in DOMAIN keyToUrl
        /\ keyToUrl[proc[q].key].object = proc[q].finalUrl

\* C22: numFailures is 0 after every ping, so it is 0 at every test of the
\* threshold and keepAlive never ends the process, however many pings fail
C22_CounterReset ==
    /\ monitor.numFailures = 0
    /\ monitor.pc # "exited"
    /\ monitor.pc = "check" => ~(monitor.numFailures > maxNumKeepAliveFailures * 3)

\* keepAlive is at its test with numFailures 0 after more failed pings in a
\* row than the threshold
C22_Witness ==
    /\ monitor.pc = "check"
    /\ monitor.failedInARow > 3 * maxNumKeepAliveFailures + 3
    /\ monitor.numFailures = 0

\* C23: in every state every unexpired item of keyToUrl is the decoding of
\* what KeyToLink holds for its key at that moment
C23_CacheCoherence ==
    \A k \in DOMAIN keyToUrl :
        ~Expired(keyToUrl[k])
            => /\ k \in DOMAIN keyToLinkTable
               /\ keyToUrl[k].object = AtobMust(keyToLinkTable[k])

\* C24: in every state, between the two writes of a call and after a failed
\* write included, every key that is a value of HashToKey is a field of
\* KeyToLink
C24_ReferentialInvariant ==
    \A h \in DOMAIN linkExistsTable : linkExistsTable[h] \in DOMAIN keyToLinkTable

\* one call is between its two writes while another has returned the error
\* of a failed HSET and HashToKey has an entry
C24_Witness ==
    \E p, q \in Procs :
        /\ proc[p].pc = "HSetLinkExists"
        /\ proc[p].key \in DOMAIN keyToLinkTable
        /\ proc[p].hash \notin DOMAIN linkExistsTable
        /\ Done(q) /\ proc[q].op = "create" /\ proc[q].failed
        /\ HasMsg(proc[q].err, "saving key and link")
        /\ linkExistsTable # EmptyTable

\* a step changes one of the two tables
TablesWritten ==
    keyToLinkTable' # keyToLinkTable \/ linkExistsTable' # linkExistsTable

\* C25: a call of writeLink that returns an error other than the one of the
\* HashToKey write (a key conflict, exhaustion, a store error on the lookup
\* of the content or on an existence check, a failed KeyToLink write) has
\* written neither table; a table only changes in a write step of a call
\* that has had no store error, so HashToKey is never written after the
\* KeyToLink write failed
C25_UnchangedOnFailure ==
    /\ [](\A p \in Procs :
            (Done(p) /\ proc[p].op = "writeLink" /\ proc[p].err # nil
                /\ ~HasMsg(proc[p].err, "saving hash of link"))
                => proc[p].nHSet = 0)
    /\ [][TablesWritten
            => \E p \in Procs :
                /\ proc[p].pc \in {"HSetKeyToLink", "HSetLinkExists"}
                /\ ~proc[p].failed /\ ~proc'[p].failed
                /\ proc'[p].nHSet = proc[p].nHSet + 1]_vars

\* one call has ended on a key conflict and another on a failed KeyToLink
\* write, both without a write, and HashToKey has no entry for the link of
\* the second
C25_Witness ==
    \E p, q \in Procs :
        /\ Done(p) /\ proc[p].op = "writeLink"
        /\ HasMsg(proc[p].err, "custom key already exists")
        /\ proc[p].nHSet = 0
        /\ Done(q) /\ proc[q].op = "writeLink"
        /\ HasMsg(proc[q].err, "saving key and link")
        /\ proc[q].nHSet = 0
        /\ proc[q].key \notin DOMAIN keyToLinkTable
        /\ proc[q].hash \notin DOMAIN linkExistsTable

\* C26: operationCreateLink returns a nil error exactly with Success, and
\* then a key that is not empty; operationKeyToLink returns a nil error
\* exactly with LinkFound; operationExportLinks returns a nil error exactly
\* with Success; with an error comes no key, no URL and no links
C26_StatusAndErrorAgree ==
    \A p \in Procs :
        Done(p) =>
            /\ proc[p].op = "create"
                    => /\ proc[p].err = nil <=> proc[p].status = "Success"
                       /\ proc[p].status = "Success" => proc[p].key # <<>>
                       /\ proc[p].err # nil => proc[p].key = <<>>
            /\ proc[p].op = "resolve"
                    => /\ proc[p].err = nil <=> proc[p].status = "LinkFound"
                       /\ proc[p].err # nil => proc[p].finalUrl = <<>>
            /\ proc[p].op = "export"
                    => /\ proc[p].err = nil <=> proc[p].status = "Success"
                       /\ proc[p].err # nil => proc[p].links = <<>>

\* a create has ended on a store error with Uncategorized and an error, and
\* an export has ended with Success, no error and a link
C26_Witness ==
    \E p, q \in Procs :
        /\ Done(p) /\ proc[p].op = "create" /\ proc[p].failed
        /\ proc[p].status = "Uncategorized" /\ proc[p].err # nil
        /\ Done(q) /\ proc[q].op = "export"
        /\ proc[q].status = "Success" /\ proc[q].err = nil
        /\ proc[q].links # <<>>

C28_SelectionBias ==
    tally.v = RandRange
        => /\ \A i, j \in DOMAIN tally.count : tally.count[i] - tally.count[j] <= 1
           /\ (\A i, j \in DOMAIN tally.count : tally.count[i] = tally.count[j])
                    <=> RandRange % Len(alphabet) = 0

\* with the 52 letters of the default alphabet the first 16 positions are
\* selected by 1261 values each and the others by 1260
C28_Witness ==
    /\ tally.v = RandRange
    /\ Len(alphabet) = DefaultAlphabetLen
    /\ tally.count[16] = 1261
    /\ tally.count[17] = 1260

====
